---------------------------- MODULE Spec2Model ----------------------------
(***************************************************************************)
(* A model of wiki-tui's link selection (src/ui/article/links.rs), of the  *)
(* handlers that load articles and continue searches (src/ui/article/      *)
(* mod.rs, src/ui/search/mod.rs) and of RootLayout (src/ui/root.rs).        *)
(*                                                                         *)
(* LinkHandler keeps a vector of links (id, x, y) and the index of the     *)
(* current link.  Indices are 0-based as in the source; the TLA+ sequence  *)
(* `links` is 1-based, so the source's links[i] is links[i + 1] here.      *)
(* usize is modelled as the integers 0 .. UsizeMax with UsizeMax =         *)
(* 2^WordBits - 1.                                                         *)
(***************************************************************************)
EXTENDS Integers, Sequences, FiniteSets, TLC

\* ------------------------------------------------------------------ bounds

\* Width of the machine word (usize) in the model.
WordBits == 8

\* Largest number of links pushed into one LinkHandler.
MaxLinks == 3

\* Largest y coordinate (screen row) of a pushed link.
MaxY == 2

RECURSIVE Pow2(_)
Pow2(n) == IF n = 0 THEN 1 ELSE 2 * Pow2(n - 1)

\* usize::MAX
UsizeMax == Pow2(WordBits) - 1

Usize == 0 .. UsizeMax

\* The ids, columns and rows push_link is called with.  The operations that
\* move the selection never read a link's x, so one column is pushed.
Ids == {0, 1}
Xs == {0}
Ys == 0 .. MaxY

\* The ids set_current_link is called with: the pushed ones and one that is
\* never pushed.
QueryIds == Ids \cup {2}

\* Largest small amount the move operations are called with.
MaxAmount == 2

\* The amounts the move operations are called with: the small ones, and the
\* largest value of usize.
Amounts == (0 .. MaxAmount) \cup {UsizeMax}

\* Option<T>::None
None == [some |-> FALSE]

\* Option<T>::Some(v)
Some(v) == [some |-> TRUE, val |-> v]

\* struct Link
Link(id, x, y) == [id |-> id, x |-> x, y |-> y]

\* ------------------------------------------------------------------- state

VARIABLES
    links,            \* LinkHandler.links
    current_link,     \* LinkHandler.current_link
    panicked,         \* "none", or the kind of panic that ended the program
    op,               \* history: the last operation called
    arg,              \* history: its argument (the amount, the id, or the
                      \* link pushed)
    pre_links,        \* history: links before the last operation
    pre_current,      \* history: current_link before the last operation
    recorded,         \* caller: the id read from get_current_link before a rebuild
    rebuild,          \* caller: "idle", "building" (new and push_link only,
                      \* so far) or "restored" (set_current_link(recorded) called)
    trip,             \* caller: a move_up(n) followed by move_down(n) in progress
    siv_layers,       \* Cursive: the layers of the screen, the top one last
    article_layout,   \* the children of the RootLayout named article_layout
    config,           \* CONFIG: features.toc and settings.toc.position
    screen_call,      \* history: the last handler of the screen
    search_results,   \* the items of the SelectView named search_results_view
    continue_offset,  \* the offset the callback of search_continue_button
                      \* continues from
    search_call,      \* history: the last handler of the search
    keybindings,      \* RootLayout.keybindings
    root_call         \* history: the last event RootLayout received

handler_vars == <<links, current_link, panicked>>

history_vars == <<op, arg, pre_links, pre_current>>

caller_vars == <<recorded, rebuild, trip>>

link_vars == <<links, current_link, panicked, op, arg, pre_links, pre_current,
               recorded, rebuild, trip>>

search_vars == <<search_results, continue_offset, search_call>>

root_vars == <<keybindings, root_call>>

ui_vars == <<siv_layers, article_layout, config, screen_call, search_results,
             continue_offset, search_call, keybindings, root_call>>

vars == <<links, current_link, panicked, op, arg, pre_links, pre_current,
          recorded, rebuild, trip, siv_layers, article_layout, config,
          screen_call, search_results, continue_offset, search_call,
          keybindings, root_call>>

\* ------------------------------------------------------ usize arithmetic

\* usize::saturating_sub
saturating_sub(a, b) == IF a >= b THEN a - b ELSE 0

\* usize::saturating_add
saturating_add(a, b) == IF a + b > UsizeMax THEN UsizeMax ELSE a + b

\* `a + b` on usize overflows
add_overflows(a, b) == a + b > UsizeMax

\* `a + b` on usize in a build without overflow checks
wrapping_add(a, b) == (a + b) % (UsizeMax + 1)

\* --------------------------------------------------------- pure functions

\* LinkHandler::registered_links
registered_links(ls) == Len(ls)

\* LinkHandler::get_current_link
get_current_link(ls, cur) ==
    IF ls = <<>> THEN None ELSE Some(ls[cur + 1].id)

\* LinkHandler::get_current_link_pos
get_current_link_pos(ls, cur) ==
    IF ls = <<>> THEN None ELSE Some(<<ls[cur + 1].x, ls[cur + 1].y>>)

\* A move_up loop that compares with < instead of <=.
RECURSIVE move_up_scan_strict(_, _, _)
move_up_scan_strict(ls, k, min_y) ==
    IF k = 0 THEN 0
    ELSE IF ls[k].y < min_y THEN k - 1
    ELSE move_up_scan_strict(ls, k - 1, min_y)

\* The loop of move_up: `for i in (0..current_link).rev()`, with k the number
\* of indices still to visit (the next index visited is k - 1); falls through
\* to index 0.
RECURSIVE move_up_scan(_, _, _)
move_up_scan(ls, k, min_y) ==
    IF k = 0 THEN 0
    ELSE IF ls[k].y <= min_y THEN k - 1
    ELSE move_up_scan(ls, k - 1, min_y)

\* A move_up that subtracts the amount from the index instead of comparing
\* rows.
move_up_by_index(ls, cur, amount) == saturating_sub(cur, amount)

\* LinkHandler::move_up on a non-empty index: the new current_link
move_up_result(ls, cur, amount) ==
    move_up_scan(ls, cur, saturating_sub(ls[cur + 1].y, amount))

\* A move_down loop that falls through to links.len().
RECURSIVE move_down_scan_past_end(_, _, _)
move_down_scan_past_end(ls, i, min_y) ==
    IF i >= Len(ls) THEN Len(ls)
    ELSE IF ls[i + 1].y >= min_y THEN i
    ELSE move_down_scan_past_end(ls, i + 1, min_y)

\* The loop of move_down: `for i in current_link..links.len()`, with i the
\* next index visited; falls through to the last index.
RECURSIVE move_down_scan(_, _, _)
move_down_scan(ls, i, min_y) ==
    IF i >= Len(ls) THEN saturating_sub(Len(ls), 1)
    ELSE IF ls[i + 1].y >= min_y THEN i
    ELSE move_down_scan(ls, i + 1, min_y)

\* A move_down whose target row wraps instead of saturating.
move_down_wrapping(ls, cur, amount) ==
    move_down_scan(ls, cur, wrapping_add(ls[cur + 1].y, amount))

\* LinkHandler::move_down on a non-empty index: the new current_link
move_down_result(ls, cur, amount) ==
    move_down_scan(ls, cur, saturating_add(ls[cur + 1].y, amount))

\* LinkHandler::move_left on a non-empty index: the new current_link
move_left_result(ls, cur, amount) == saturating_sub(cur, amount)

\* A move_right without the clamp to the last index.
move_right_unclamped(ls, cur, sum) == sum

\* LinkHandler::move_right on a non-empty index, where `current_link + amount`
\* evaluates to sum: the new current_link
move_right_result(ls, cur, sum) ==
    IF sum >= Len(ls) THEN saturating_sub(Len(ls), 1) ELSE sum

\* Iterator::position(|l| l.id == id), from index i on
RECURSIVE position(_, _, _)
position(ls, id, i) ==
    IF i >= Len(ls) THEN None
    ELSE IF ls[i + 1].id = id THEN Some(i)
    ELSE position(ls, id, i + 1)

\* Option<usize>::unwrap_or_default
unwrap_or_default(o) == IF o.some THEN o.val ELSE 0

\* A set_current_link that selects the last link when the id is not found.
set_current_link_or_last(ls, id) ==
    LET found == position(ls, id, 0)
    IN  IF found.some THEN found.val ELSE Len(ls) - 1

\* A set_current_link that searches from the back (Iterator::rposition).
RECURSIVE rposition(_, _, _)
rposition(ls, id, k) ==
    IF k = 0 THEN None
    ELSE IF ls[k].id = id THEN Some(k - 1)
    ELSE rposition(ls, id, k - 1)

set_current_link_last(ls, id) == unwrap_or_default(rposition(ls, id, Len(ls)))

\* LinkHandler::set_current_link on a non-empty index: the new current_link
set_current_link_result(ls, id) == unwrap_or_default(position(ls, id, 0))

\* --------------------------------------------------------------- actions

\* The history of one call.
Called(name, a) ==
    /\ op' = name
    /\ arg' = a
    /\ pre_links' = links
    /\ pre_current' = current_link

\* Reading links[i] (Vec's Index): in bounds, or a panic.
InBounds(i) == i >= 0 /\ i < Len(links)

\* LinkHandler::new
new ==
    /\ panicked = "none"
    /\ links' = <<>>
    /\ current_link' = 0
    /\ Called("new", 0)
    /\ UNCHANGED panicked

\* A push_link that inserts the link at the front.
push_link_front(id, x, y) ==
    /\ panicked = "none"
    /\ links' = <<Link(id, x, y)>> \o links
    /\ Called("push_link", Link(id, x, y))
    /\ UNCHANGED <<current_link, panicked>>

\* LinkHandler::push_link
push_link(id, x, y) ==
    /\ panicked = "none"
    /\ links' = Append(links, Link(id, x, y))
    /\ Called("push_link", Link(id, x, y))
    /\ UNCHANGED <<current_link, panicked>>

\* A call that selects without the early return on an empty index.
select_unguarded(name, a, reads_current, result) ==
    /\ panicked = "none"
    /\ Called(name, a)
    /\ IF reads_current /\ ~InBounds(current_link)
       THEN /\ panicked' = "index"
            /\ UNCHANGED <<links, current_link>>
       ELSE /\ current_link' = result
            /\ UNCHANGED <<links, panicked>>

\* A call that selects: on an empty index it returns early; it panics when it
\* reads links[current_link] out of bounds; otherwise current_link becomes
\* result.
Select(name, a, reads_current, result) ==
    /\ panicked = "none"
    /\ Called(name, a)
    /\ IF links = <<>>
       THEN UNCHANGED <<links, current_link, panicked>>
       ELSE IF reads_current /\ ~InBounds(current_link)
       THEN /\ panicked' = "index"
            /\ UNCHANGED <<links, current_link>>
       ELSE /\ current_link' = result
            /\ UNCHANGED <<links, panicked>>

\* LinkHandler::move_up
move_up(amount) ==
    Select("move_up", amount, TRUE, move_up_result(links, current_link, amount))

\* LinkHandler::move_down
move_down(amount) ==
    Select("move_down", amount, TRUE,
           move_down_result(links, current_link, amount))

\* LinkHandler::move_left
move_left(amount) ==
    Select("move_left", amount, FALSE,
           move_left_result(links, current_link, amount))

\* LinkHandler::move_right: when `self.current_link + amount` overflows, a
\* build with overflow checks panics and a build without them wraps.
move_right(amount) ==
    \/ /\ panicked = "none"
       /\ links # <<>>
       /\ add_overflows(current_link, amount)
       /\ Called("move_right", amount)
       /\ panicked' = "overflow"
       /\ UNCHANGED <<links, current_link>>
    \/ Select("move_right", amount, FALSE,
              move_right_result(links, current_link,
                                wrapping_add(current_link, amount)))

\* LinkHandler::set_current_link
set_current_link(id) ==
    Select("set_current_link", id, FALSE, set_current_link_result(links, id))

\* ------------------------------------------------ the screen (ui/article)

\* A layer of the Cursive screen: the main layer that holds article_layout,
\* the search layer, the dialog that asks whether to open a link (it keeps the
\* link's target for its "Yep" button), or an error dialog.
Layer(kind, target) == [kind |-> kind, target |-> target]

MainLayer == Layer("main", 0)
SearchLayer == Layer("search", 0)
ConfirmLayer(target) == Layer("confirm", target)
ErrorLayer == Layer("error", 0)

\* A child of article_layout: the name it is found by and the article it
\* belongs to (0 for the logo).
Child(name, article) == [name |-> name, article |-> article]

\* The articles that are fetched: a search result's page or a link's target.
Articles == {1, 2}

\* CONFIG.features.toc and CONFIG.settings.toc.position
Configs == [toc : BOOLEAN, position : {"LEFT", "RIGHT"}]

DefaultConfig == [toc |-> TRUE, position |-> "LEFT"]

\* Cursive::add_layer
add_layer(ls, layer) == Append(ls, layer)

\* Cursive::pop_layer: removes the layer on top, if there is one.
pop_layer(ls) == IF ls = <<>> THEN ls ELSE SubSeq(ls, 1, Len(ls) - 1)

\* The layer on top of the screen.
Top(ls) == ls[Len(ls)]

\* LinearLayout::find_child_from_name, from (0-based) index i on
RECURSIVE find_child_from_name(_, _, _)
find_child_from_name(lay, name, i) ==
    IF i >= Len(lay) THEN None
    ELSE IF lay[i + 1].name = name THEN Some(i)
    ELSE find_child_from_name(lay, name, i + 1)

\* RootLayout::remove_child
remove_child(lay, i) == SubSeq(lay, 1, i) \o SubSeq(lay, i + 2, Len(lay))

\* RootLayout::add_child
add_child(lay, child) == Append(lay, child)

\* RootLayout::insert_child (Vec::insert: i is at most the length)
insert_child(lay, i, child) ==
    SubSeq(lay, 1, i) \o <<child>> \o SubSeq(lay, i + 1, Len(lay))

\* ui::utils::remove_view_from_layout: removes the child found by the name,
\* if there is one.
remove_view_from_layout(lay, name) ==
    LET found == find_child_from_name(lay, name, 0)
    IN  IF found.some THEN remove_child(lay, found.val) ELSE lay

\* ui::toc::add_table_of_contents: adds the table of contents of the article
\* to article_layout under the name toc_view.
add_table_of_contents(lay, article) ==
    add_child(lay, Child("toc_view", article))

\* A display_article that does not remove the article view shown before.
display_article_layout_keeping(lay, article, has_toc, cfg) ==
    LET cleared == remove_view_from_layout(
                       remove_view_from_layout(lay, "logo_view"), "toc_view")
        with_toc == IF has_toc THEN add_table_of_contents(cleared, article)
                    ELSE cleared
        index == IF cfg.position = "LEFT" THEN 1 ELSE 0
        view == Child("article_view", article)
    IN  IF cfg.toc /\ has_toc THEN insert_child(with_toc, index, view)
        ELSE add_child(with_toc, view)

\* display_article, lines 187-226: article_layout after the three views are
\* removed, the table of contents added (when the article has one) and the
\* article view inserted.
display_article_layout(lay, article, has_toc, cfg) ==
    LET cleared == remove_view_from_layout(
                       remove_view_from_layout(
                           remove_view_from_layout(lay, "logo_view"),
                           "article_view"),
                       "toc_view")
        with_toc == IF has_toc THEN add_table_of_contents(cleared, article)
                    ELSE cleared
        index == IF cfg.position = "LEFT" THEN 1 ELSE 0
        view == Child("article_view", article)
    IN  IF cfg.toc /\ has_toc THEN insert_child(with_toc, index, view)
        ELSE add_child(with_toc, view)

\* The outcomes of the lookups display_article makes: whether the view
\* search_results_preview is found, whether article_layout is found, and
\* whether article_view takes the focus.
Lookups == [preview : BOOLEAN, layout : BOOLEAN, focus : BOOLEAN]

\* display_article: the layers and article_layout it leaves, and whether it
\* returned Ok.
display_article(ls, lay, article, has_toc, cfg, found) ==
    LET ls1 == IF found.preview THEN pop_layer(ls) ELSE ls
    IN  IF ~found.layout
        THEN [layers |-> ls1, layout |-> lay, ok |-> FALSE]
        ELSE [layers |-> ls1,
              layout |-> display_article_layout(lay, article, has_toc, cfg),
              ok |-> found.focus]

\* A load that removes the views of the article shown before it fetches.
fetch_and_display_clearing(ls, lay, article, has_toc, cfg, build_ok, found) ==
    IF ~build_ok
    THEN [layers |-> add_layer(ls, ErrorLayer),
          layout |-> remove_view_from_layout(lay, "article_view"),
          displayed |-> FALSE]
    ELSE LET d == display_article(ls, lay, article, has_toc, cfg, found)
         IN  [layers |-> IF d.ok THEN d.layers
                         ELSE add_layer(d.layers, ErrorLayer),
              layout |-> d.layout,
              displayed |-> d.ok]

\* The part on_article_submit (lines 36-80) and open_link (lines 134-167)
\* share: ArticleBuilder::build, then an error dialog when it failed, else
\* display_article, then an error dialog when that failed.
fetch_and_display(ls, lay, article, has_toc, cfg, build_ok, found) ==
    IF ~build_ok
    THEN [layers |-> add_layer(ls, ErrorLayer),
          layout |-> lay,
          displayed |-> FALSE]
    ELSE LET d == display_article(ls, lay, article, has_toc, cfg, found)
         IN  [layers |-> IF d.ok THEN d.layers
                         ELSE add_layer(d.layers, ErrorLayer),
              layout |-> d.layout,
              displayed |-> d.ok]

\* The history of one handler of the screen: its name, the layers and
\* article_layout before it, whether it called ArticleBuilder::build, the
\* layers at that moment, whether build and display_article returned Ok, and
\* the article asked for.
ScreenCall(name, fetched, fetch_layers, build_ok, displayed, article) ==
    [op |-> name,
     pre_layers |-> siv_layers,
     pre_layout |-> article_layout,
     fetched |-> fetched,
     fetch_layers |-> fetch_layers,
     build_ok |-> build_ok,
     displayed |-> displayed,
     article |-> article]

\* A handler that neither fetches nor displays.
PlainCall(name) == ScreenCall(name, FALSE, <<>>, FALSE, FALSE, 0)

NoCall ==
    [op |-> "none", pre_layers |-> <<>>, pre_layout |-> <<>>,
     fetched |-> FALSE, fetch_layers |-> <<>>, build_ok |-> FALSE,
     displayed |-> FALSE, article |-> 0]

\* The view search_results_preview can only be found while a search layer is
\* on the screen.
HasSearchLayer(ls) == \E k \in 1 .. Len(ls) : ls[k].kind = "search"

\* A handler fetches the article and displays it, with ls the layers at the
\* moment of the fetch.
Load(name, ls, article, has_toc, build_ok, found) ==
    /\ found.preview => HasSearchLayer(ls)
    /\ LET r == fetch_and_display(ls, article_layout, article, has_toc,
                                  config, build_ok, found)
       IN  /\ siv_layers' = r.layers
           /\ article_layout' = r.layout
           /\ screen_call' = ScreenCall(name, TRUE, ls, build_ok, r.displayed,
                                        article)

\* on_article_submit: the callback of the search results view.
on_article_submit(article, has_toc, build_ok, found) ==
    /\ siv_layers # <<>>
    /\ Top(siv_layers).kind = "search"
    /\ Load("on_article_submit", siv_layers, article, has_toc, build_ok, found)

\* on_link_submit: the callback of the article view.
on_link_submit(target) ==
    /\ siv_layers # <<>>
    /\ Top(siv_layers).kind = "main"
    /\ find_child_from_name(article_layout, "article_view", 0).some
    /\ siv_layers' = add_layer(siv_layers, ConfirmLayer(target))
    /\ screen_call' = PlainCall("on_link_submit")
    /\ UNCHANGED article_layout

\* An open_link that leaves the dialog on the screen.
open_link_keeping_dialog(has_toc, build_ok, found) ==
    /\ siv_layers # <<>>
    /\ Top(siv_layers).kind = "confirm"
    /\ Load("open_link", siv_layers, Top(siv_layers).target, has_toc,
            build_ok, found)

\* open_link: the callback of the dialog's button "Yep".
open_link(has_toc, build_ok, found) ==
    /\ siv_layers # <<>>
    /\ Top(siv_layers).kind = "confirm"
    /\ Load("open_link", pop_layer(siv_layers), Top(siv_layers).target,
            has_toc, build_ok, found)

\* The callback of the dialog's button "Nope".
nope ==
    /\ siv_layers # <<>>
    /\ Top(siv_layers).kind = "confirm"
    /\ siv_layers' = pop_layer(siv_layers)
    /\ screen_call' = PlainCall("nope")
    /\ UNCHANGED article_layout

\* The button of an error dialog (Dialog::info) removes the dialog.
dismiss ==
    /\ siv_layers # <<>>
    /\ Top(siv_layers).kind = "error"
    /\ siv_layers' = pop_layer(siv_layers)
    /\ screen_call' = PlainCall("dismiss")
    /\ UNCHANGED article_layout

\* ------------------------------------------------- the search (ui/search)

\* Largest number of results one search request returns.
MaxBatch == 2

\* Largest number of results listed in the search results view.
MaxResults == 4

\* The Search a request at the given offset returns when it succeeds: n
\* results and the offset to continue from.
SearchResponse(offset, n) ==
    [results |-> [k \in 1 .. n |-> offset + k], search_offset |-> offset + n]

\* The outcomes of the lookups display_more_search_results makes: whether the
\* view search_results_view is found, whether the button
\* search_continue_button is found, and whether the results view takes the
\* focus.
SearchLookups == [view : BOOLEAN, button : BOOLEAN, focus : BOOLEAN]

\* ui::utils::display_error: shows the error in a dialog.
display_error(ls) == add_layer(ls, ErrorLayer)

\* A display_more_search_results that looks up the view and the button and
\* checks the focus before it changes anything.
display_more_search_results_atomic(items, offset, search, found) ==
    IF found.view /\ found.button /\ found.focus
    THEN [results |-> items \o search.results,
          offset |-> search.search_offset, ok |-> TRUE,
          step |-> "done"]
    ELSE [results |-> items, offset |-> offset, ok |-> FALSE,
          step |-> IF ~found.view THEN "view"
                   ELSE IF ~found.button THEN "button" ELSE "focus"]

\* display_more_search_results: the items of the results view and the offset
\* bound to the continue button that it leaves, whether it returned Ok, and
\* the step it failed at.
display_more_search_results(items, offset, search, found) ==
    IF ~found.view
    THEN [results |-> items, offset |-> offset, ok |-> FALSE, step |-> "view"]
    ELSE LET added == items \o search.results
         IN  IF ~found.button
             THEN [results |-> added, offset |-> offset, ok |-> FALSE,
                   step |-> "button"]
             ELSE [results |-> added, offset |-> search.search_offset,
                   ok |-> found.focus,
                   step |-> IF found.focus THEN "done" ELSE "focus"]

\* The history of one handler of the search: its name, the items and the
\* offset before it, the Search it received (no results when the request
\* failed) and the step it failed at ("done" when it did not fail).
SearchCall(name, search, step) ==
    [op |-> name,
     pre_results |-> search_results,
     pre_offset |-> continue_offset,
     pre_layers |-> siv_layers,
     search |-> search,
     step |-> step]

NoSearchCall ==
    [op |-> "none", pre_results |-> <<>>, pre_offset |-> 0,
     pre_layers |-> <<>>, search |-> SearchResponse(0, 0), step |-> "done"]

\* on_search: the search succeeded and display_search_results put the search
\* layer on the screen, with the results in search_results_view and the
\* continue button bound to the offset to continue from; or one of the two
\* failed and the error is displayed.
on_search(ok, n) ==
    /\ siv_layers # <<>>
    /\ Top(siv_layers).kind = "main"
    /\ LET search == SearchResponse(0, n)
       IN  IF ok
           THEN /\ siv_layers' = add_layer(siv_layers, SearchLayer)
                /\ search_results' = search.results
                /\ continue_offset' = search.search_offset
                /\ search_call' = SearchCall("on_search", search, "done")
           ELSE /\ siv_layers' = display_error(siv_layers)
                /\ search_call' =
                       SearchCall("on_search", SearchResponse(0, 0), "search")
                /\ UNCHANGED <<search_results, continue_offset>>
    /\ screen_call' = PlainCall("on_search")
    /\ UNCHANGED article_layout

\* on_continue_submit: the callback of the continue button.
on_continue_submit(search_ok, n, found) ==
    /\ siv_layers # <<>>
    /\ Top(siv_layers).kind = "search"
    /\ Len(search_results) + n <= MaxResults
    /\ IF ~search_ok
       THEN /\ siv_layers' = display_error(siv_layers)
            /\ search_call' = SearchCall("on_continue_submit",
                                         SearchResponse(continue_offset, 0),
                                         "search")
            /\ UNCHANGED <<search_results, continue_offset>>
       ELSE LET search == SearchResponse(continue_offset, n)
                d == display_more_search_results(
                         search_results, continue_offset, search, found)
            IN  /\ search_results' = d.results
                /\ continue_offset' = d.offset
                /\ siv_layers' = IF d.ok THEN siv_layers
                                 ELSE display_error(siv_layers)
                /\ search_call' = SearchCall("on_continue_submit", search,
                                             d.step)
    /\ screen_call' = PlainCall("on_continue_submit")
    /\ UNCHANGED article_layout

\* --------------------------------------------------- RootLayout (ui/root)

\* The actions of Keybindings, in the order wrap_on_event tests them.
KeyActions == <<"up", "down", "left", "right", "focus_next", "focus_prev">>

\* The events the keys are bound to, and the events that reach the layout
\* from outside: the bound ones, an arrow key and a key bound to nothing.
BoundEvents == {"Char(j)", "Char(k)", "Key(Tab)"}
Events == BoundEvents \cup {"Key(Up)", "Char(q)"}

AllKeybindings ==
    [{KeyActions[k] : k \in 1 .. Len(KeyActions)} -> BoundEvents]

DefaultKeybindings ==
    [up |-> "Char(k)", down |-> "Char(j)", left |-> "Char(j)",
     right |-> "Char(k)", focus_next |-> "Key(Tab)", focus_prev |-> "Key(Tab)"]

\* A wrap_on_event that tests the focus keys before the movement keys.
event_for_layout_focus_first(kb, ch) ==
    IF ch = kb.focus_next THEN "Key(Tab)"
    ELSE IF ch = kb.focus_prev THEN "Shift(Key(Tab))"
    ELSE IF ch = kb.up THEN "Key(Up)"
    ELSE IF ch = kb.down THEN "Key(Down)"
    ELSE IF ch = kb.left THEN "Key(Left)"
    ELSE IF ch = kb.right THEN "Key(Right)"
    ELSE ch

\* The match of wrap_on_event: the event passed to the layout.
event_for_layout(kb, ch) ==
    IF ch = kb.up THEN "Key(Up)"
    ELSE IF ch = kb.down THEN "Key(Down)"
    ELSE IF ch = kb.left THEN "Key(Left)"
    ELSE IF ch = kb.right THEN "Key(Right)"
    ELSE IF ch = kb.focus_next THEN "Key(Tab)"
    ELSE IF ch = kb.focus_prev THEN "Shift(Key(Tab))"
    ELSE ch

\* EventResult, as the inner layout returns it.
EventResults == {"Ignored", "Consumed"}

NoRootCall ==
    [op |-> "none", event |-> "none", forwarded |-> <<>>,
     result |-> "none", returned |-> "none"]

\* RootLayout::wrap_on_event: the layout receives the translated event and
\* answers with result, which is returned.
wrap_on_event(ch, result) ==
    /\ root_call' = [op |-> "wrap_on_event",
                     event |-> ch,
                     forwarded |-> <<event_for_layout(keybindings, ch)>>,
                     result |-> result,
                     returned |-> result]
    /\ UNCHANGED keybindings

\* ---------------------------------------------------------- specification

\* The callers below push at most MaxLinks links into one index.
BelowMaxLinks == Len(links) < MaxLinks

\* No round trip in progress.
NoTrip == [stage |-> 0, origin |-> 0]

\* The LinkHandler after LinkHandler::new(), and no caller at work.
LinkHandlerInit ==
    /\ links = <<>>
    /\ current_link = 0
    /\ panicked = "none"
    /\ op = "new"
    /\ arg = 0
    /\ pre_links = <<>>
    /\ pre_current = 0
    /\ recorded = None
    /\ rebuild = "building"
    /\ trip = NoTrip

\* The screen at start: the main layer alone, the logo in article_layout, no
\* search made and no event received.
ScreenInit ==
    /\ siv_layers = <<MainLayer>>
    /\ article_layout = <<Child("logo_view", 0)>>
    /\ screen_call = NoCall
    /\ search_results = <<>>
    /\ continue_offset = 0
    /\ search_call = NoSearchCall
    /\ root_call = NoRootCall

Init ==
    /\ LinkHandlerInit
    /\ ScreenInit
    /\ config = DefaultConfig
    /\ keybindings = DefaultKeybindings

\* The LinkHandler under every sequence of calls of its operations.
Next ==
    \/ new /\ UNCHANGED <<caller_vars, ui_vars>>
    \/ \E id \in Ids, x \in Xs, y \in Ys :
           /\ BelowMaxLinks
           /\ push_link(id, x, y)
           /\ UNCHANGED <<caller_vars, ui_vars>>
    \/ \E amount \in Amounts :
           move_up(amount) /\ UNCHANGED <<caller_vars, ui_vars>>
    \/ \E amount \in Amounts :
           move_down(amount) /\ UNCHANGED <<caller_vars, ui_vars>>
    \/ \E amount \in Amounts :
           move_left(amount) /\ UNCHANGED <<caller_vars, ui_vars>>
    \/ \E amount \in Amounts :
           move_right(amount) /\ UNCHANGED <<caller_vars, ui_vars>>
    \/ \E id \in QueryIds :
           set_current_link(id) /\ UNCHANGED <<caller_vars, ui_vars>>

Spec == Init /\ [][Next]_vars

\* ------------------------------------------- the caller: rebuild by link id

\* The caller reads get_current_link() and replaces the index by a new one.
BeginRebuild ==
    /\ recorded' = get_current_link(links, current_link)
    /\ new
    /\ rebuild' = "building"
    /\ UNCHANGED <<trip, ui_vars>>

\* The caller pushes one occurrence of the new layout.
PushOccurrence(id, x, y) ==
    /\ rebuild = "building"
    /\ BelowMaxLinks
    /\ push_link(id, x, y)
    /\ UNCHANGED <<caller_vars, ui_vars>>

\* The caller asks for the recorded id to be selected again.
Restore ==
    /\ rebuild = "building"
    /\ recorded.some
    /\ set_current_link(recorded.val)
    /\ rebuild' = "restored"
    /\ UNCHANGED <<recorded, trip, ui_vars>>

\* The user moves the selection in the finished index.
NavigateRight(amount) ==
    /\ move_right(amount)
    /\ rebuild' = "idle"
    /\ UNCHANGED <<recorded, trip, ui_vars>>

NavigateLeft(amount) ==
    /\ move_left(amount)
    /\ rebuild' = "idle"
    /\ UNCHANGED <<recorded, trip, ui_vars>>

NextRebuild ==
    \/ BeginRebuild
    \/ \E id \in Ids, x \in Xs, y \in Ys : PushOccurrence(id, x, y)
    \/ Restore
    \/ \E amount \in Amounts : NavigateRight(amount)
    \/ \E amount \in Amounts : NavigateLeft(amount)

\* The LinkHandler as a caller uses it that rebuilds the index and restores
\* the selection by link id.
SpecRebuild == Init /\ [][NextRebuild]_vars

\* ------------------------------------- the caller: move_up, then move_down

\* move_up(n), remembering the index it started from.
TripUp(amount) ==
    /\ move_up(amount)
    /\ trip' = [stage |-> 1, origin |-> current_link]
    /\ UNCHANGED <<recorded, rebuild, ui_vars>>

\* move_down by the amount of the move_up that was called last.
TripDown ==
    /\ trip.stage = 1
    /\ move_down(arg)
    /\ trip' = [trip EXCEPT !.stage = 2]
    /\ UNCHANGED <<recorded, rebuild, ui_vars>>

\* push_link, outside a round trip.
TripPush(id, x, y) ==
    /\ BelowMaxLinks
    /\ push_link(id, x, y)
    /\ trip' = NoTrip
    /\ UNCHANGED <<recorded, rebuild, ui_vars>>

\* move_right, to choose the link a round trip starts from.
TripChoose(amount) ==
    /\ move_right(amount)
    /\ trip' = NoTrip
    /\ UNCHANGED <<recorded, rebuild, ui_vars>>

NextTrip ==
    \/ \E id \in Ids, x \in Xs, y \in Ys : TripPush(id, x, y)
    \/ \E amount \in Amounts : TripChoose(amount)
    \/ \E amount \in Amounts : TripUp(amount)
    \/ TripDown

\* The LinkHandler under move_up(n) followed by move_down(n), from any link of
\* any index.
SpecTrip == Init /\ [][NextTrip]_vars

\* ------------------------------------------------ the screen's specification

\* The handlers of ui/article leave the LinkHandler, the configuration, the
\* search and the RootLayout's keys alone.
ArticleFrame == UNCHANGED <<link_vars, config, search_vars, root_vars>>

\* The handlers of ui/search leave the LinkHandler, the configuration and the
\* RootLayout's keys alone.
SearchFrame == UNCHANGED <<link_vars, config, root_vars>>

\* The screen at start, under any configuration of the table of contents.
InitScreen ==
    /\ LinkHandlerInit
    /\ ScreenInit
    /\ config \in Configs
    /\ keybindings = DefaultKeybindings

\* The screen under every sequence of searches (each returns one result),
\* submitted search results, activated links and answered dialogs.
NextArticle ==
    \/ \E ok \in BOOLEAN : on_search(ok, 1) /\ SearchFrame
    \/ \E article \in Articles, has_toc \in BOOLEAN, build_ok \in BOOLEAN,
          found \in Lookups :
           on_article_submit(article, has_toc, build_ok, found) /\ ArticleFrame
    \/ \E target \in Articles : on_link_submit(target) /\ ArticleFrame
    \/ \E has_toc \in BOOLEAN, build_ok \in BOOLEAN, found \in Lookups :
           open_link(has_toc, build_ok, found) /\ ArticleFrame
    \/ nope /\ ArticleFrame
    \/ dismiss /\ ArticleFrame

SpecArticle == InitScreen /\ [][NextArticle]_vars

\* The search layer under every sequence of searches, requests for more
\* results and dismissed error dialogs.
NextSearch ==
    \/ \E ok \in BOOLEAN, n \in 0 .. MaxBatch : on_search(ok, n) /\ SearchFrame
    \/ \E search_ok \in BOOLEAN, n \in 0 .. MaxBatch, found \in SearchLookups :
           on_continue_submit(search_ok, n, found) /\ SearchFrame
    \/ dismiss /\ ArticleFrame

SpecSearch == Init /\ [][NextSearch]_vars

\* ------------------------------------------- the RootLayout's specification

\* A RootLayout under any binding of the six actions.
InitRoot ==
    /\ LinkHandlerInit
    /\ ScreenInit
    /\ config = DefaultConfig
    /\ keybindings \in AllKeybindings

\* The RootLayout under every sequence of events.
NextRoot ==
    \E ch \in Events, result \in EventResults :
        /\ wrap_on_event(ch, result)
        /\ UNCHANGED <<link_vars, siv_layers, article_layout, config,
                       screen_call, search_vars>>

SpecRoot == InitRoot /\ [][NextRoot]_vars

\* ------------------------------------------------- vocabulary of the claims

\* The greatest and the smallest element of a non-empty set of numbers.
Greatest(S) == CHOOSE m \in S : \A k \in S : k <= m
Smallest(S) == CHOOSE m \in S : \A k \in S : m <= k

\* The last operation was called on a non-empty index.
CalledOnLinks(name) == op = name /\ pre_links # <<>>

\* The last operation was called on an empty index.
CalledOnEmpty(name) == op = name /\ pre_links = <<>>

\* The y coordinate of the link at (0-based) index i.
RowOf(ls, i) == ls[i + 1].y

\* The ids of the registered links.
LinkIds(ls) == {ls[k].id : k \in 1 .. Len(ls)}

\* Links pushed left to right and top to bottom (the comment on push_link).
ReadingOrder(ls) ==
    \A k \in 1 .. Len(ls) - 1 :
        \/ ls[k].y < ls[k + 1].y
        \/ ls[k].y = ls[k + 1].y /\ ls[k].x <= ls[k + 1].x

\* ------------------------------------------------------------------ claims

\* C1: in every state reached from LinkHandler::new() by push_link, move_up,
\* move_down, move_left, move_right and set_current_link, a non-empty index
\* has current_link < links.len(), and no operation has read links at an
\* index outside 0 .. links.len() - 1 (which would have panicked).
CurrentLinkInBounds ==
    /\ links # <<>> => current_link \in 0 .. Len(links) - 1
    /\ panicked # "index"

\* C1 witness: move_right by more than the links that are left stopped at the
\* last index.
CurrentLinkInBoundsWitness ==
    /\ CalledOnLinks("move_right")
    /\ arg = 2
    /\ pre_current = 1
    /\ Len(links) = 3
    /\ current_link = 2
    /\ panicked = "none"

\* C2: on an index with no links, move_up, move_down, move_left, move_right
\* and set_current_link change nothing (links empty, current_link = 0) and
\* raise no error; registered_links() is 0 and get_current_link() and
\* get_current_link_pos() return None.
EmptyIndexNoOp ==
    (\E name \in {"move_up", "move_down", "move_left", "move_right",
                  "set_current_link"} : CalledOnEmpty(name))
        => /\ links = <<>>
           /\ current_link = 0
           /\ pre_current = 0
           /\ panicked = "none"
           /\ registered_links(links) = 0
           /\ get_current_link(links, current_link) = None
           /\ get_current_link_pos(links, current_link) = None

\* C2 witness: move_up by the largest amount was called on an empty index.
EmptyIndexNoOpWitness ==
    /\ CalledOnEmpty("move_up")
    /\ arg = UsizeMax
    /\ links = <<>>

\* C3: move_up(n) on a non-empty index selects the greatest index before the
\* current one whose y is at most max(current.y - n, 0), and index 0 when
\* there is none; links is unchanged.
MoveUpSelectsByRow ==
    CalledOnLinks("move_up") =>
        LET target_y == IF RowOf(pre_links, pre_current) >= arg
                        THEN RowOf(pre_links, pre_current) - arg ELSE 0
            above == {i \in 0 .. pre_current - 1 : RowOf(pre_links, i) <= target_y}
        IN  /\ current_link = IF above = {} THEN 0 ELSE Greatest(above)
            /\ links = pre_links
            /\ panicked = "none"

\* C3 witness: move_up(1) from index 2 skipped the link at index 1, whose row
\* is below the target, and selected index 0: not the index 2 - 1.
MoveUpSelectsByRowWitness ==
    /\ CalledOnLinks("move_up")
    /\ arg = 1
    /\ pre_current = 2
    /\ Len(links) = 3
    /\ RowOf(links, 0) = 0
    /\ RowOf(links, 1) = 2
    /\ RowOf(links, 2) = 2
    /\ current_link = 0

\* C4: move_down(n) on a non-empty index selects the smallest index at or
\* after the current one whose y is at least min(current.y + n, usize::MAX),
\* and the last index when there is none; links is unchanged.
MoveDownSelectsByRow ==
    CalledOnLinks("move_down") =>
        LET sum == RowOf(pre_links, pre_current) + arg
            target_y == IF sum > UsizeMax THEN UsizeMax ELSE sum
            below == {i \in pre_current .. Len(pre_links) - 1 :
                          RowOf(pre_links, i) >= target_y}
        IN  /\ current_link = IF below = {} THEN Len(pre_links) - 1
                              ELSE Smallest(below)
            /\ links = pre_links
            /\ panicked = "none"

\* C4 witness: move_down(1) from index 0 skipped the link on the same row and
\* selected the first link at least one row below.
MoveDownSelectsByRowWitness ==
    /\ CalledOnLinks("move_down")
    /\ arg = 1
    /\ pre_current = 0
    /\ Len(links) = 3
    /\ RowOf(links, 0) = 0
    /\ RowOf(links, 1) = 0
    /\ RowOf(links, 2) = 2
    /\ current_link = 2

\* C5: move_left(n) and move_right(n) on a non-empty index are pure index
\* moves: move_left(n) sets current to max(current - n, 0) and move_right(n)
\* sets it to min(current + n, links.len() - 1), whatever the coordinates of
\* the links; links is unchanged.
LeftRightAreIndexMoves ==
    /\ CalledOnLinks("move_left") =>
           /\ current_link = IF pre_current >= arg THEN pre_current - arg ELSE 0
           /\ links = pre_links
           /\ panicked = "none"
    /\ CalledOnLinks("move_right") =>
           /\ current_link = IF pre_current + arg <= Len(pre_links) - 1
                             THEN pre_current + arg ELSE Len(pre_links) - 1
           /\ links = pre_links
           /\ panicked = "none"

\* C6: the arithmetic of the move operations saturates: no call overflows,
\* and move_right(n) ends at the saturating sum of current and n, clamped to
\* the last index, for every n up to usize::MAX.
MovesSaturate ==
    /\ panicked # "overflow"
    /\ CalledOnLinks("move_right") =>
           current_link = IF saturating_add(pre_current, arg) >= Len(pre_links)
                          THEN Len(pre_links) - 1
                          ELSE saturating_add(pre_current, arg)

\* C7: set_current_link(id) on a non-empty index selects the lowest index
\* whose link has the id, and index 0 when no link has it; it reports no
\* error and links is unchanged.
SetCurrentLinkSelectsFirst ==
    CalledOnLinks("set_current_link") =>
        LET found == {i \in 0 .. Len(pre_links) - 1 : pre_links[i + 1].id = arg}
        IN  /\ current_link = IF found = {} THEN 0 ELSE Smallest(found)
            /\ links = pre_links
            /\ panicked = "none"

\* C7 witness: two links carry the id and a link with another id precedes
\* them: the first of the two is selected.
SetCurrentLinkSelectsFirstWitness ==
    /\ CalledOnLinks("set_current_link")
    /\ arg = 1
    /\ Len(links) = 3
    /\ links[1].id = 0
    /\ links[2].id = 1
    /\ links[3].id = 1
    /\ pre_current = 2
    /\ current_link = 1

\* C8: when the id returned by get_current_link() is recorded, a new index is
\* built (new, then push_link) and set_current_link(recorded id) is called,
\* get_current_link() returns the recorded id if it is among the new
\* occurrences and current is 0 if it is not; as long as set_current_link has
\* not been called the rebuilt index has current = 0.
RebuildPreservesSelection ==
    /\ rebuild = "restored" =>
           /\ op = "set_current_link"
           /\ IF recorded.val \in LinkIds(links)
              THEN get_current_link(links, current_link) = Some(recorded.val)
              ELSE current_link = 0
    /\ rebuild = "building" => current_link = 0

\* C8 witness: the recorded id was found again in the new index, at an index
\* other than 0.
RebuildPreservesSelectionWitness ==
    /\ rebuild = "restored"
    /\ recorded = Some(1)
    /\ Len(links) = 3
    /\ current_link = 2
    /\ links[3].id = 1

\* The current link of a round trip is neither the first nor the last link,
\* and lies neither on the first nor on the last occupied row.
NotAtBoundary(ls, c) ==
    /\ c > 0
    /\ c < Len(ls) - 1
    /\ RowOf(ls, c) > RowOf(ls, 0)
    /\ RowOf(ls, c) < RowOf(ls, Len(ls) - 1)

\* C9 as stated, for the amounts n >= 1: with links in reading order and a
\* current link not at the top or bottom boundary, move_up(n) followed by
\* move_down(n) ends on a link of the row of the link selected before.
RoundTripSameRow ==
    (/\ trip.stage = 2
     /\ arg >= 1
     /\ links # <<>>
     /\ ReadingOrder(links)
     /\ NotAtBoundary(links, trip.origin))
        => RowOf(links, current_link) = RowOf(links, trip.origin)

\* A link before index c lies exactly n rows above the link at c.
LinkRowsAbove(ls, c, n) ==
    \E i \in 0 .. c - 1 : RowOf(ls, i) + n = RowOf(ls, c)

\* C9 amended: with links in reading order and a link before the current one
\* exactly n rows above it, move_up(n) followed by move_down(n) ends on a
\* link of the row of the link selected before.
RoundTripSameRowExact ==
    (/\ trip.stage = 2
     /\ links # <<>>
     /\ ReadingOrder(links)
     /\ LinkRowsAbove(links, trip.origin, arg))
        => /\ RowOf(links, current_link) = RowOf(links, trip.origin)
           /\ current_link <= trip.origin
           /\ panicked = "none"

\* C9 witness: from the second link of row 1, move_up(1) and move_down(1)
\* ended on the first link of row 1.
RoundTripSameRowExactWitness ==
    /\ trip.stage = 2
    /\ arg = 1
    /\ trip.origin = 2
    /\ Len(links) = 3
    /\ RowOf(links, 0) = 0
    /\ RowOf(links, 1) = 1
    /\ RowOf(links, 2) = 1
    /\ pre_current = 0
    /\ current_link = 1

\* C10: on a non-empty index move_right(a) followed by move_right(b) ends at
\* min(current + a + b, last index), where a single move_right(a + b) ends.
MoveRightComposes ==
    [][(CalledOnLinks("move_right") /\ op' = "move_right")
           => /\ panicked' = "none"
              /\ current_link' =
                     IF pre_current + arg + arg' <= Len(links) - 1
                     THEN pre_current + arg + arg' ELSE Len(links) - 1]_vars

\* C11: move_up(n) called with the first link (index 0) selected selects
\* index 0, and move_down(n) called with the last link selected selects the
\* last index, for every n; the index is left as it was.  The state after
\* such a call is again at the boundary, so repeating the call any number of
\* times leaves current_link unchanged.
BoundaryMovesStay ==
    /\ (CalledOnLinks("move_up") /\ pre_current = 0) =>
           /\ current_link = 0
           /\ links = pre_links
           /\ panicked = "none"
    /\ (CalledOnLinks("move_down") /\ pre_current = Len(pre_links) - 1) =>
           /\ current_link = Len(links) - 1
           /\ current_link = pre_current
           /\ links = pre_links
           /\ panicked = "none"

\* C11 witness: move_down(1) was called with the last of three links selected,
\* and the last link is still selected.
BoundaryMovesStayWitness ==
    /\ CalledOnLinks("move_down")
    /\ arg = 1
    /\ Len(pre_links) = 3
    /\ pre_current = 2
    /\ current_link = 2

\* ------------------------------------------- the caller: the fixture index

\* Four links pushed in this order: L0 at (x = 2, y = 0), L1 at (1, 2), L2 at
\* (9, 2) and L3 at (0, 5), with ids 0 .. 3.
FixtureLinks == <<Link(0, 2, 0), Link(1, 1, 2), Link(2, 9, 2), Link(3, 0, 5)>>

FixtureIds == {FixtureLinks[k].id : k \in 1 .. Len(FixtureLinks)}

\* The caller pushes the next link of the fixture.
PushFixture ==
    /\ Len(links) < Len(FixtureLinks)
    /\ links = SubSeq(FixtureLinks, 1, Len(links))
    /\ LET next == FixtureLinks[Len(links) + 1]
       IN  push_link(next.id, next.x, next.y)
    /\ UNCHANGED <<caller_vars, ui_vars>>

NextFixture ==
    \/ PushFixture
    \/ \E amount \in Amounts :
           move_up(amount) /\ UNCHANGED <<caller_vars, ui_vars>>
    \/ \E amount \in Amounts :
           move_down(amount) /\ UNCHANGED <<caller_vars, ui_vars>>
    \/ \E amount \in Amounts :
           move_left(amount) /\ UNCHANGED <<caller_vars, ui_vars>>
    \/ \E amount \in Amounts :
           move_right(amount) /\ UNCHANGED <<caller_vars, ui_vars>>
    \/ \E id \in FixtureIds :
           set_current_link(id) /\ UNCHANGED <<caller_vars, ui_vars>>

\* The LinkHandler holding the fixture's links, under every sequence of
\* selecting calls.
SpecFixture == Init /\ [][NextFixture]_vars

\* move_up(1) was called on the fixture with L2 (index 2) selected.
FixtureMoveUpCalled ==
    /\ CalledOnLinks("move_up")
    /\ arg = 1
    /\ pre_links = FixtureLinks
    /\ pre_current = 2

\* C12: on the fixture with L2 selected, move_up(1) selects L1.
FixtureSelectsL1 ==
    FixtureMoveUpCalled => get_current_link(links, current_link) = Some(1)

\* C12, amended: on the fixture with L2 selected, move_up(1) selects L0 at
\* index 0: the target row is 1, L1 on row 2 is below it and L0 on row 0 is the
\* first link met that is on or above it.
FixtureSelectsL0 ==
    FixtureMoveUpCalled =>
        /\ current_link = 0
        /\ get_current_link(links, current_link) = Some(0)
        /\ get_current_link_pos(links, current_link) = Some(<<2, 0>>)
        /\ links = FixtureLinks
        /\ panicked = "none"

\* C12 witness: move_up(1) was called on the fixture with L2 selected and
\* selected L0.
FixtureSelectsL0Witness ==
    /\ FixtureMoveUpCalled
    /\ get_current_link(links, current_link) = Some(0)

\* --------------------------------------------- the caller: building an index

\* The columns and rows the links of a new index are pushed with: two columns,
\* the first row and the last.
BuildXs == {0, 1}
BuildYs == {0, MaxY}

\* The caller starts a new index.
BuildNew ==
    /\ new
    /\ rebuild' = "building"
    /\ UNCHANGED <<recorded, trip, ui_vars>>

\* The caller pushes a link, before or after navigation.
BuildPush(id, x, y) ==
    /\ BelowMaxLinks
    /\ push_link(id, x, y)
    /\ UNCHANGED <<caller_vars, ui_vars>>

NextBuild ==
    \/ BuildNew
    \/ \E id \in Ids, x \in BuildXs, y \in BuildYs : BuildPush(id, x, y)
    \/ \E amount \in Amounts : NavigateRight(amount)
    \/ \E amount \in Amounts : NavigateLeft(amount)

\* The LinkHandler as a caller fills it: new, push_link, and navigation in
\* between.
SpecBuild == Init /\ [][NextBuild]_vars

\* C13: push_link(id, x, y) appends the link (id, x, y) at the end of links,
\* keeps every registered link at its index with its id and coordinates and
\* leaves current_link unchanged; so while an index has only been built (new,
\* then push_link, no navigation) get_current_link() is the id of the first
\* link pushed and get_current_link_pos() its (x, y).
PushLinkAppends ==
    /\ op = "push_link" =>
           /\ links = Append(pre_links, arg)
           /\ \A k \in 1 .. Len(pre_links) : links[k] = pre_links[k]
           /\ current_link = pre_current
           /\ panicked = "none"
    /\ (rebuild = "building" /\ links # <<>>) =>
           /\ current_link = 0
           /\ get_current_link(links, current_link) = Some(links[1].id)
           /\ get_current_link_pos(links, current_link) =
                  Some(<<links[1].x, links[1].y>>)

\* C13 witness: a third link was pushed into a new index whose first link has
\* id 1 and lies at (1, MaxY); the current link is reported with that id and
\* position.
PushLinkAppendsWitness ==
    /\ op = "push_link"
    /\ rebuild = "building"
    /\ Len(links) = 3
    /\ arg = Link(0, 0, 0)
    /\ get_current_link(links, current_link) = Some(1)
    /\ get_current_link_pos(links, current_link) = Some(<<1, MaxY>>)

\* One of the four moves was called with amount 0 on a non-empty index whose
\* links are in reading order.
ZeroMoveCalled ==
    /\ op \in {"move_up", "move_down", "move_left", "move_right"}
    /\ pre_links # <<>>
    /\ arg = 0
    /\ ReadingOrder(pre_links)

\* C19: on a non-empty index with links in reading order, move_up(0),
\* move_down(0), move_left(0) and move_right(0) leave current_link unchanged.
\* (move_down(0), move_left(0) and move_right(0) do; move_up(0) selects the
\* link before the current one.)
ZeroMoveIsNoOp == ZeroMoveCalled => current_link = pre_current

\* move_up(n), n >= 1, was called with links in reading order and the current
\* link on the topmost occupied row.
MoveUpFromTopRow ==
    /\ CalledOnLinks("move_up")
    /\ arg >= 1
    /\ ReadingOrder(pre_links)
    /\ \A i \in 0 .. Len(pre_links) - 1 :
           RowOf(pre_links, i) >= RowOf(pre_links, pre_current)

\* move_down(n), n >= 1, was called with links in reading order and the
\* current link on the bottommost occupied row.
MoveDownFromBottomRow ==
    /\ CalledOnLinks("move_down")
    /\ arg >= 1
    /\ ReadingOrder(pre_links)
    /\ \A i \in 0 .. Len(pre_links) - 1 :
           RowOf(pre_links, i) <= RowOf(pre_links, pre_current)

\* C20: with links in reading order and n >= 1, move_up(n) from any link of
\* the topmost occupied row selects index 0 and move_down(n) from any link of
\* the bottommost occupied row selects the last index, whatever the y of that
\* row is (y = 0 included).
RowBoundaryMoves ==
    /\ MoveUpFromTopRow => current_link = 0
    /\ MoveDownFromBottomRow => current_link = Len(links) - 1

\* The children of article_layout that carry the name.
Named(lay, name) == {k \in 1 .. Len(lay) : lay[k].name = name}

\* The layers of the kind.
LayersOf(ls, kind) == {k \in 1 .. Len(ls) : ls[k].kind = kind}

\* The last handler called ArticleBuilder::build and it returned an error.
BuildFailed == screen_call.fetched /\ ~screen_call.build_ok

\* C14: when ArticleBuilder::build returns an error in on_article_submit or
\* in open_link, exactly one error dialog layer is added (on top of the layers
\* present when the fetch started) and article_layout holds the children it
\* held before the handler, so an article displayed before stays displayed.
BuildFailureKeepsArticle ==
    BuildFailed =>
        /\ screen_call.op \in {"on_article_submit", "open_link"}
        /\ screen_call.op = "on_article_submit" =>
               screen_call.fetch_layers = screen_call.pre_layers
        /\ screen_call.op = "open_link" =>
               screen_call.fetch_layers = pop_layer(screen_call.pre_layers)
        /\ siv_layers = Append(screen_call.fetch_layers, ErrorLayer)
        /\ Cardinality(LayersOf(siv_layers, "error")) =
               Cardinality(LayersOf(screen_call.pre_layers, "error")) + 1
        /\ article_layout = screen_call.pre_layout

\* C14 witness: with article 1 and its table of contents displayed, a search
\* result was submitted and the fetch failed; the error dialog lies on the
\* search layer and article 1 is still displayed.
BuildFailureKeepsArticleWitness ==
    /\ BuildFailed
    /\ screen_call.op = "on_article_submit"
    /\ siv_layers = <<MainLayer, SearchLayer, ErrorLayer>>
    /\ Child("article_view", 1) \in
           {article_layout[k] : k \in 1 .. Len(article_layout)}
    /\ Child("toc_view", 1) \in
           {article_layout[k] : k \in 1 .. Len(article_layout)}

LinkNeedsConfirmation ==
    /\ screen_call.op = "on_link_submit" =>
           /\ ~screen_call.fetched
           /\ Len(siv_layers) = Len(screen_call.pre_layers) + 1
           /\ pop_layer(siv_layers) = screen_call.pre_layers
           /\ Top(siv_layers).kind = "confirm"
           /\ article_layout = screen_call.pre_layout
    /\ screen_call.op = "open_link" =>
           /\ Top(screen_call.pre_layers).kind = "confirm"
           /\ screen_call.article = Top(screen_call.pre_layers).target
           /\ screen_call.fetched
           /\ screen_call.fetch_layers = pop_layer(screen_call.pre_layers)
           /\ LayersOf(screen_call.fetch_layers, "confirm") = {}
           /\ LayersOf(siv_layers, "confirm") = {}
    /\ screen_call.op = "nope" =>
           /\ ~screen_call.fetched
           /\ Top(screen_call.pre_layers).kind = "confirm"
           /\ siv_layers = pop_layer(screen_call.pre_layers)
           /\ article_layout = screen_call.pre_layout
    /\ screen_call.fetched =>
           screen_call.op \in {"on_article_submit", "open_link"}

\* C16 witness: "Yep" was pressed for the link to article 2 while article 1
\* was displayed; article 2 is displayed and only the main layer is left.
LinkNeedsConfirmationWitness ==
    /\ screen_call.op = "open_link"
    /\ screen_call.displayed
    /\ screen_call.article = 2
    /\ Child("article_view", 1) \in
           {screen_call.pre_layout[k] : k \in 1 .. Len(screen_call.pre_layout)}
    /\ siv_layers = <<MainLayer>>

\* The last handler called was on_continue_submit and it failed at some step.
ContinueFailed ==
    /\ screen_call.op = "on_continue_submit"
    /\ search_call.op = "on_continue_submit"
    /\ search_call.step # "done"

\* C17: when on_continue_submit fails at any step (the search, the lookup of
\* the results view, the lookup of the continue button, the focus) an error
\* is displayed, the results view holds the items it held before the call and
\* the continue button is bound to the offset it was bound to before.
ContinueFailureKeepsList ==
    ContinueFailed =>
        /\ siv_layers = display_error(search_call.pre_layers)
        /\ search_results = search_call.pre_results
        /\ continue_offset = search_call.pre_offset

\* C17, amended: when on_continue_submit fails an error is displayed; the
\* items and the offset are the ones from before the call when the search
\* failed or the results view was not found; when the continue button was
\* not found the new results have been added and the offset is the old one;
\* when the focus failed the new results have been added and the button is
\* bound to the new offset.
ContinueFailureExact ==
    ContinueFailed =>
        /\ siv_layers = display_error(search_call.pre_layers)
        /\ search_call.step \in {"search", "view"} =>
               /\ search_results = search_call.pre_results
               /\ continue_offset = search_call.pre_offset
        /\ search_call.step = "button" =>
               /\ search_results =
                      search_call.pre_results \o search_call.search.results
               /\ continue_offset = search_call.pre_offset
        /\ search_call.step = "focus" =>
               /\ search_results =
                      search_call.pre_results \o search_call.search.results
               /\ continue_offset = search_call.search.search_offset

\* C17 witness: the continued search returned two results and the continue
\* button was not found: the error is displayed over a list that has grown by
\* two items.
ContinueFailureExactWitness ==
    /\ ContinueFailed
    /\ search_call.step = "button"
    /\ Len(search_call.search.results) = 2
    /\ Len(search_results) = Len(search_call.pre_results) + 2
    /\ Top(siv_layers) = ErrorLayer

\* The event the layout is to receive for ch: the arrow or tab key of the
\* first action, in the order up, down, left, right, focus_next, focus_prev,
\* that ch is bound to, or ch itself when it is bound to none.
KeyOfAction ==
    [up |-> "Key(Up)", down |-> "Key(Down)", left |-> "Key(Left)",
     right |-> "Key(Right)", focus_next |-> "Key(Tab)",
     focus_prev |-> "Shift(Key(Tab))"]

ExpectedEvent(kb, ch) ==
    LET bound == {k \in 1 .. Len(KeyActions) : kb[KeyActions[k]] = ch}
    IN  IF bound = {} THEN ch ELSE KeyOfAction[KeyActions[Smallest(bound)]]

\* C18: wrap_on_event passes every event to the inner layout exactly once and
\* returns the layout's result; an event bound to up, down, left or right is
\* passed as the Up, Down, Left or Right arrow key, one bound to focus_next as
\* Tab and to focus_prev as Shift+Tab, the first action in that order winning
\* when a key is bound to several, and every other event is passed unchanged.
ForwardsTranslatedEvent ==
    root_call.op = "wrap_on_event" =>
        /\ Len(root_call.forwarded) = 1
        /\ root_call.forwarded[1] = ExpectedEvent(keybindings, root_call.event)
        /\ root_call.returned = root_call.result

\* C18 witness: the key bound to down, right and focus_next was passed to the
\* layout as the Down arrow key, and the layout's result was returned.
ForwardsTranslatedEventWitness ==
    /\ root_call.op = "wrap_on_event"
    /\ root_call.event = "Char(j)"
    /\ keybindings.up = "Char(k)"
    /\ keybindings.down = "Char(j)"
    /\ keybindings.right = "Char(j)"
    /\ keybindings.focus_next = "Char(j)"
    /\ root_call.forwarded = <<"Key(Down)">>
    /\ root_call.returned = "Consumed"

\* C21: on a non-empty index, in reading order or not, and for any amount,
\* move_up and move_left never increase current_link and move_down and
\* move_right never decrease it.
MovesAreMonotone ==
    /\ (CalledOnLinks("move_up") \/ CalledOnLinks("move_left")) =>
           current_link <= pre_current
    /\ (CalledOnLinks("move_down") \/ CalledOnLinks("move_right")) =>
           current_link >= pre_current

=============================================================================
